---- MODULE Spec2Model ----
(***************************************************************************)
(* Model of the opportunity-analysis engine of BitcoinATM-finder           *)
(* (src/analyzer.py, class OpportunityAnalyzer).                           *)
(*                                                                         *)
(* Python values are tagged records, so that None, strings and numbers can *)
(* sit in the same dictionary slot:  None, S("text"), N(42).  A dictionary *)
(* is a function from its keys to such values; a key the dictionary lacks  *)
(* is simply not in its domain.                                            *)
(*                                                                         *)
(* Numbers.  Latitude and longitude are integers on a local grid whose     *)
(* unit is one metre of arc.  A distance is carried as its SQUARE in       *)
(* square metres, which keeps every comparison of the code exact in        *)
(* integer arithmetic: d < 0.05 km  <=>  d*d < 50*50.  A rating is carried *)
(* in tenths (4.2 is 42).  The rounded distance of a record is carried in  *)
(* hundredths of a kilometre (1.29 km is 129).                             *)
(*                                                                         *)
(* A local variable of the code that is read more than once is a parameter *)
(* of a helper operator rather than a LET definition: TLC evaluates an     *)
(* argument once and a LET definition at every use.                        *)
(***************************************************************************)
EXTENDS Integers, Sequences, FiniteSets, TLC

VARIABLES locations, atm_locations, opportunities, origin, pc, i, call, result,
          summary, stored, requests

vars == <<locations, atm_locations, opportunities, origin, pc, i, call, result,
          summary, stored, requests>>

(***************************************************************************)
(* Python values                                                           *)
(***************************************************************************)
None == [t |-> "none"]

S(s) == [t |-> "str", v |-> s]

N(n) == [t |-> "num", v |-> n]

IsNone(x) == x.t = "none"

IsStr(x) == x.t = "str"

IsNum(x) == x.t = "num"

\* bool(x): None, "" and 0 are false.
Truthy(x) ==
  CASE x.t = "none" -> FALSE
    [] x.t = "str" -> x.v # ""
    [] x.t = "num" -> x.v # 0

\* d.get(key): None when the key is missing.
Get(d, key) == IF key \in DOMAIN d THEN d[key] ELSE None

\* d.get(key, default)
GetD(d, key, default) == IF key \in DOMAIN d THEN d[key] ELSE default

\* x or y
Or(x, y) == IF Truthy(x) THEN x ELSE y

(***************************************************************************)
(* Python strings                                                          *)
(***************************************************************************)
Char(s, k) == SubSeq(s, k, k)

Whitespace == {" ", "\t"}

Uppercase ==
  {"A", "B", "C", "D", "E", "F", "G", "H", "I", "J", "K", "L", "M",
   "N", "O", "P", "Q", "R", "S", "T", "U", "V", "W", "X", "Y", "Z"}

\* str.lower() of one character
LowerChar(c) ==
  IF c \notin Uppercase THEN c
  ELSE CASE c = "A" -> "a" [] c = "B" -> "b" [] c = "C" -> "c" [] c = "D" -> "d"
         [] c = "E" -> "e" [] c = "F" -> "f" [] c = "G" -> "g" [] c = "H" -> "h"
         [] c = "I" -> "i" [] c = "J" -> "j" [] c = "K" -> "k" [] c = "L" -> "l"
         [] c = "M" -> "m" [] c = "N" -> "n" [] c = "O" -> "o" [] c = "P" -> "p"
         [] c = "Q" -> "q" [] c = "R" -> "r" [] c = "S" -> "s" [] c = "T" -> "t"
         [] c = "U" -> "u" [] c = "V" -> "v" [] c = "W" -> "w" [] c = "X" -> "x"
         [] c = "Y" -> "y" [] c = "Z" -> "z"

\* str.lower(): the characters from position k on, lowered
RECURSIVE LowerFrom(_, _)
LowerFrom(s, k) ==
  IF k > Len(s) THEN "" ELSE LowerChar(Char(s, k)) \o LowerFrom(s, k + 1)

Lower(s) == LowerFrom(s, 1)

\* sub in s
Contains(sub, s) ==
  \E k \in 0..(Len(s) - Len(sub)) : SubSeq(s, k + 1, k + Len(sub)) = sub

\* set(s.split()): the maximal runs of non-whitespace characters, read from
\* position k on with the run `word` open.
RECURSIVE SplitFrom(_, _, _)
SplitFrom(s, k, word) ==
  LET closed == IF word = "" THEN {} ELSE {word}
  IN  IF k > Len(s) THEN closed
      ELSE IF Char(s, k) \in Whitespace THEN closed \cup SplitFrom(s, k + 1, "")
      ELSE SplitFrom(s, k + 1, word \o Char(s, k))

SplitSet(s) == SplitFrom(s, 1, "")

\* s.split(",")[0]: the text before the first comma.
RECURSIVE FirstFieldFrom(_, _)
FirstFieldFrom(s, k) ==
  IF k > Len(s) \/ Char(s, k) = "," THEN SubSeq(s, 1, k - 1)
  ELSE FirstFieldFrom(s, k + 1)

FirstField(s) == FirstFieldFrom(s, 1)

\* s.strip()
RECURSIVE LStrip(_)
LStrip(s) ==
  IF s # "" /\ Char(s, 1) \in Whitespace THEN LStrip(SubSeq(s, 2, Len(s))) ELSE s

RECURSIVE RStrip(_)
RStrip(s) ==
  IF s # "" /\ Char(s, Len(s)) \in Whitespace
  THEN RStrip(SubSeq(s, 1, Len(s) - 1)) ELSE s

Strip(s) == RStrip(LStrip(s))

(***************************************************************************)
(* The records the collections are drawn from                              *)
(***************************************************************************)
Missing == [t |-> "missing"]

\* A dictionary with the given keys, except those whose value is Missing.
Dict(keys, vals) ==
  [k \in {keys[j] : j \in {n \in 1..Len(keys) : vals[n] # Missing}} |->
     vals[CHOOSE j \in 1..Len(keys) : keys[j] = k]]

Location(vals) ==
  Dict(<<"business_name", "address", "phone", "business_type",
         "latitude", "longitude", "google_rating">>, vals)

Atm(vals) ==
  Dict(<<"location_name", "address", "operator", "latitude", "longitude">>, vals)

LocPool ==
  { Location(<<S("Joe's Store"), S("12 Main St, Miami, FL"), S("305-555-1234"),
               S("Gas Station"), N(1000), N(2000), N(42)>>),
    Location(<<S("The Quick Stop Shop"), Missing, S("786-555-0000"),
               S("Smoke Shop"), None, None, None>>),
    Location(<<S("Quick Mart Store"), S("12 Main St"), None,
               S("Grocery/Bodega"), N(1000), N(2000), N(30)>>),
    Location(<<S(""), S(""), Missing,
               Missing, N(0), N(2020), N(29)>>),
    Location(<<S("JOE'S STORE DOWNTOWN"), S("77 Palm Ave, Miami"), S("305-555-9876"),
               S("Convenience Store"), N(1000), N(2500), N(48)>>),
    Location(<<S("Quick Stop"), S("12 main st"), Missing,
               None, Missing, Missing, Missing>>) }

AtmPool ==
  { Atm(<<S("Joe's Store Downtown"), S("99 Bay Rd, Miami"), S("Bitcoin Depot"),
          N(1000), N(5000)>>),
    Atm(<<S("Stop & Quick Store"), S(""), S(""), None, Missing>>),
    Atm(<<S("Joe's Store"), S("  12 MAIN ST , Miami FL"), Missing, N(1030), N(2040)>>),
    Atm(<<S(""), S(""), S("RockItCoin"), N(1030), N(2000)>>),
    Atm(<<S("The Coin Shop"), Missing, S("Athena"), N(0), N(2020)>>),
    Atm(<<None, S("1 Null Rd"), S("Byte Federal"), S("n/a"), N(2000)>>),
    Atm(<<S(""), Missing, S("Coinhub"), N(20), N(2020)>>) }

(***************************************************************************)
(* calculate_distance                                                      *)
(***************************************************************************)
\* float('inf'): larger than the square of any distance on the grid.
Inf == 2000000000

Sq(m) == m * m

\* geopy's geodesic((lat1, lon1), (lat2, lon2)): defined on numbers only; any
\* other operand makes it raise.
GeodesicRaises(lat1, lon1, lat2, lon2) ==
  ~(IsNum(lat1) /\ IsNum(lon1) /\ IsNum(lat2) /\ IsNum(lon2))

Geodesic(lat1, lon1, lat2, lon2) == Sq(lat1.v - lat2.v) + Sq(lon1.v - lon2.v)

\* Mutant: a null coordinate is read as 0 instead of ending the call.
calculate_distance_null_as_zero(lat1, lon1, lat2, lon2) ==
  IF \E c \in {lat1, lon1, lat2, lon2} : IsStr(c) THEN Inf
  ELSE Sq((IF IsNone(lat1) THEN 0 ELSE lat1.v) - (IF IsNone(lat2) THEN 0 ELSE lat2.v))
         + Sq((IF IsNone(lon1) THEN 0 ELSE lon1.v) - (IF IsNone(lon2) THEN 0 ELSE lon2.v))

calculate_distance(lat1, lon1, lat2, lon2) ==
  IF None \in {lat1, lon1, lat2, lon2} THEN Inf
  ELSE IF GeodesicRaises(lat1, lon1, lat2, lon2) THEN Inf
  ELSE Geodesic(lat1, lon1, lat2, lon2)

(***************************************************************************)
(* find_nearest_atm                                                        *)
(***************************************************************************)
\* lines 37-39: acc is (min_distance, nearest_operator) so far.
NearestUpdate(acc, atm, distance) ==
  IF distance < acc.min_distance
  THEN [min_distance |-> distance,
        nearest_operator |-> GetD(atm, "operator", S("Unknown"))]
  ELSE acc

\* lines 32-39: one iteration of the loop over self.atm_locations.
NearestStep(acc, atm, lat, lon) ==
  IF Truthy(Get(atm, "latitude")) /\ Truthy(Get(atm, "longitude"))
  THEN NearestUpdate(acc, atm,
                     calculate_distance(lat, lon, Get(atm, "latitude"),
                                        Get(atm, "longitude")))
  ELSE acc

RECURSIVE NearestLoop(_, _, _, _, _)
NearestLoop(atms, k, acc, lat, lon) ==
  IF k > Len(atms) THEN acc
  ELSE NearestLoop(atms, k + 1, NearestStep(acc, atms[k], lat, lon), lat, lon)

find_nearest_atm(atms, lat, lon) ==
  NearestLoop(atms, 1, [min_distance |-> Inf, nearest_operator |-> None], lat, lon)

(***************************************************************************)
(* check_has_bitcoin_atm                                                   *)
(***************************************************************************)
Generic == {"the", "a", "of", "and", "&", "store", "shop"}

\* x.lower() raises unless x is a string.
LowerRaises(x) == ~IsStr(x)

\* Mutant: containment is tested in one direction only.
NameContainmentOneWay(loc_name, atm_name) ==
  /\ loc_name # "" /\ atm_name # ""
  /\ Contains(loc_name, atm_name)

\* lines 57-60: simple name matching
NameContainment(loc_name, atm_name) ==
  /\ loc_name # "" /\ atm_name # ""
  /\ (Contains(loc_name, atm_name) \/ Contains(atm_name, loc_name))

\* line 65
EnoughCommon(loc_words, atm_words) ==
  /\ loc_words # {} /\ atm_words # {}
  /\ Cardinality(loc_words \cap atm_words) >= 2

\* Mutant: the generic words are not taken out.
CommonWordsWithGeneric(loc_name, atm_name) ==
  /\ loc_name # "" /\ atm_name # ""
  /\ EnoughCommon(SplitSet(loc_name), SplitSet(atm_name))

\* lines 57, 62-66: common words, the generic ones excluded
CommonWords(loc_name, atm_name) ==
  /\ loc_name # "" /\ atm_name # ""
  /\ EnoughCommon(SplitSet(loc_name) \ Generic, SplitSet(atm_name) \ Generic)

\* line 73
SameParts(loc_parts, atm_parts) ==
  loc_parts # "" /\ atm_parts # "" /\ loc_parts = atm_parts

\* Mutant: the parts are compared without strip().
AddressSimilarityUnstripped(loc_addr, atm_addr) ==
  /\ loc_addr # "" /\ atm_addr # ""
  /\ SameParts(Lower(FirstField(loc_addr)), Lower(FirstField(atm_addr)))

\* lines 69-74: street number and name
AddressSimilarity(loc_addr, atm_addr) ==
  /\ loc_addr # "" /\ atm_addr # ""
  /\ SameParts(Lower(Strip(FirstField(loc_addr))),
               Lower(Strip(FirstField(atm_addr))))

\* lines 77-80: within 50 metres
Proximity(loc_lat, loc_lon, atm_lat, atm_lon) ==
  /\ Truthy(loc_lat) /\ Truthy(loc_lon) /\ Truthy(atm_lat) /\ Truthy(atm_lon)
  /\ calculate_distance(loc_lat, loc_lon, atm_lat, atm_lon) < Sq(50)

\* lines 56-80: the four checks on one ATM, in the order of the code.
Checks(loc_name, loc_addr, loc_lat, loc_lon, atm_name, atm_addr, atm_lat, atm_lon) ==
  \/ NameContainment(loc_name, atm_name)
  \/ CommonWords(loc_name, atm_name)
  \/ AddressSimilarity(loc_addr, atm_addr)
  \/ Proximity(loc_lat, loc_lon, atm_lat, atm_lon)

\* lines 51-80: the body of the loop for one ATM whose name and address
\* are strings.
AtmMatches(loc_name, loc_addr, loc_lat, loc_lon, atm) ==
  Checks(loc_name, loc_addr, loc_lat, loc_lon,
         Lower(GetD(atm, "location_name", S("")).v),
         Lower(GetD(atm, "address", S("")).v),
         Get(atm, "latitude"), Get(atm, "longitude"))

Raised == [raised |-> TRUE, matched |-> FALSE, operator |-> None]

\* Mutant: the checks are the outer loop, so that a name match with any ATM
\* goes before an address or proximity match with an earlier one.
HasAtmByRule(atms, k, loc_name, loc_addr, loc_lat, loc_lon) ==
  LET rest == k..Len(atms)
      name(j) == Lower(GetD(atms[j], "location_name", S("")).v)
      byName == {j \in rest : \/ NameContainment(loc_name, name(j))
                              \/ CommonWords(loc_name, name(j))}
      byAny == {j \in rest : AtmMatches(loc_name, loc_addr, loc_lat, loc_lon, atms[j])}
      first(J) == CHOOSE j \in J : \A m \in J : j <= m
      found(j) == [raised |-> FALSE, matched |-> TRUE,
                   operator |-> GetD(atms[j], "operator", S("Unknown"))]
  IN  IF \E j \in rest : \/ LowerRaises(GetD(atms[j], "location_name", S("")))
                         \/ LowerRaises(GetD(atms[j], "address", S("")))
      THEN Raised
      ELSE IF byName # {} THEN found(first(byName))
      ELSE IF byAny # {} THEN found(first(byAny))
      ELSE [raised |-> FALSE, matched |-> FALSE, operator |-> None]

RECURSIVE HasAtmLoop(_, _, _, _, _, _)
HasAtmLoop(atms, k, loc_name, loc_addr, loc_lat, loc_lon) ==
  IF k > Len(atms)
  THEN [raised |-> FALSE, matched |-> FALSE, operator |-> None]
  ELSE IF \/ LowerRaises(GetD(atms[k], "location_name", S("")))
          \/ LowerRaises(GetD(atms[k], "address", S("")))
       THEN Raised
       ELSE IF AtmMatches(loc_name, loc_addr, loc_lat, loc_lon, atms[k])
       THEN [raised |-> FALSE, matched |-> TRUE,
             operator |-> GetD(atms[k], "operator", S("Unknown"))]
       ELSE HasAtmLoop(atms, k + 1, loc_name, loc_addr, loc_lat, loc_lon)

check_has_bitcoin_atm(atms, location) ==
  IF \/ LowerRaises(GetD(location, "business_name", S("")))
     \/ LowerRaises(GetD(location, "address", S("")))
  THEN Raised
  ELSE HasAtmLoop(atms, 1,
                  Lower(GetD(location, "business_name", S("")).v),
                  Lower(GetD(location, "address", S("")).v),
                  Get(location, "latitude"),
                  Get(location, "longitude"))

(***************************************************************************)
(* calculate_opportunity_score                                             *)
(***************************************************************************)
\* Mutant: a distance on a threshold falls on the rung below.
DistanceScoreStrict(distance_to_nearest) ==
  IF distance_to_nearest = Inf THEN 30
  ELSE IF distance_to_nearest > Sq(3000) THEN 40
  ELSE IF distance_to_nearest > Sq(1000) THEN 35
  ELSE IF distance_to_nearest > Sq(500) THEN 25
  ELSE IF distance_to_nearest > Sq(200) THEN 10
  ELSE 0

\* Mutant: the points of the two lowest thresholds are exchanged.
DistanceScoreSwapped(distance_to_nearest) ==
  IF distance_to_nearest = Inf THEN 30
  ELSE IF distance_to_nearest >= Sq(3000) THEN 40
  ELSE IF distance_to_nearest >= Sq(1000) THEN 35
  ELSE IF distance_to_nearest >= Sq(500) THEN 10
  ELSE IF distance_to_nearest >= Sq(200) THEN 25
  ELSE 0

\* Mutant: the infinite distance has no rung of its own and falls on the
\* first comparison.
DistanceScoreInfAsFar(distance_to_nearest) ==
  IF distance_to_nearest >= Sq(3000) THEN 40
  ELSE IF distance_to_nearest >= Sq(1000) THEN 35
  ELSE IF distance_to_nearest >= Sq(500) THEN 25
  ELSE IF distance_to_nearest >= Sq(200) THEN 10
  ELSE 0

\* lines 100-113: the distance ladder
DistanceScore(distance_to_nearest) ==
  IF distance_to_nearest = Inf THEN 30
  ELSE IF distance_to_nearest >= Sq(3000) THEN 40
  ELSE IF distance_to_nearest >= Sq(1000) THEN 35
  ELSE IF distance_to_nearest >= Sq(500) THEN 25
  ELSE IF distance_to_nearest >= Sq(200) THEN 10
  ELSE 0

\* lines 116-129: the rating ladder; a true rating that is no number makes
\* the first comparison raise.
RatingRaises(rating) == Truthy(rating) /\ ~IsNum(rating)

\* Mutant: a rating on a threshold falls on the rung below.
RatingScoreStrict(rating) ==
  IF Truthy(rating)
  THEN IF rating.v > 45 THEN 25
       ELSE IF rating.v > 40 THEN 20
       ELSE IF rating.v > 35 THEN 15
       ELSE IF rating.v > 30 THEN 10
       ELSE 5
  ELSE 10

RatingScore(rating) ==
  IF Truthy(rating)
  THEN IF rating.v >= 45 THEN 25
       ELSE IF rating.v >= 40 THEN 20
       ELSE IF rating.v >= 35 THEN 15
       ELSE IF rating.v >= 30 THEN 10
       ELSE 5
  ELSE 10

\* lines 133-140: type_scores, in the order of the dictionary literal
type_scores ==
  << <<"gas station", 25>>, <<"convenience store", 23>>, <<"smoke shop", 20>>,
     <<"liquor store", 18>>, <<"bodega", 18>>, <<"grocery", 15>> >>

\* lines 141-146: the first key found in the type wins, 12 when none is
RECURSIVE TypeLoop(_, _)
TypeLoop(business_type, k) ==
  IF k > Len(type_scores) THEN 12
  ELSE IF Contains(type_scores[k][1], business_type) THEN type_scores[k][2]
  ELSE TypeLoop(business_type, k + 1)

\* Mutant: the last key found in the type wins.
RECURSIVE TypeLoopBack(_, _)
TypeLoopBack(business_type, k) ==
  IF k = 0 THEN 12
  ELSE IF Contains(type_scores[k][1], business_type) THEN type_scores[k][2]
  ELSE TypeLoopBack(business_type, k - 1)

TypeScoreLastKey(business_type) == TypeLoopBack(business_type, Len(type_scores))

TypeScore(business_type) == TypeLoop(business_type, 1)

\* Mutant: any phone other than None counts, the empty one too.
PhoneScoreNotNone(phone) == IF IsNone(phone) THEN 0 ELSE 10

\* lines 149-150
PhoneScore(phone) == IF Truthy(phone) THEN 10 ELSE 0

Min(a, b) == IF a < b THEN a ELSE b

ScoreRaises(location, has_atm) ==
  /\ ~has_atm
  /\ \/ RatingRaises(Get(location, "google_rating"))
     \/ LowerRaises(GetD(location, "business_type", S("")))

\* Mutant: the rating itself (in tenths) is added as points and the final
\* min(score, 100) is forgotten.
score_unclamped(location, has_atm, distance_to_nearest) ==
  IF has_atm THEN 0
  ELSE DistanceScore(distance_to_nearest)
         + (IF Truthy(Get(location, "google_rating"))
            THEN Get(location, "google_rating").v ELSE 10)
         + TypeScore(Lower(GetD(location, "business_type", S("")).v))
         + PhoneScore(Get(location, "phone"))

\* Mutant: the early return for a location that has an ATM is missing
\* wherever the rating and the type can be read.
score_without_early_return(location, has_atm, distance_to_nearest) ==
  IF has_atm /\ ScoreRaises(location, FALSE) THEN 0
  ELSE
  Min(DistanceScore(distance_to_nearest)
        + RatingScore(Get(location, "google_rating"))
        + TypeScore(Lower(GetD(location, "business_type", S("")).v))
        + PhoneScore(Get(location, "phone")),
      100)

\* Mutant: a location less than 0.2 km from an ATM returns 0 like one that
\* has an ATM.
score_zero_below_200m(location, has_atm, distance_to_nearest) ==
  IF has_atm \/ distance_to_nearest < Sq(200) THEN 0
  ELSE Min(DistanceScore(distance_to_nearest)
             + RatingScore(Get(location, "google_rating"))
             + TypeScore(Lower(GetD(location, "business_type", S("")).v))
             + PhoneScore(Get(location, "phone")),
           100)

calculate_opportunity_score(location, has_atm, distance_to_nearest) ==
  IF has_atm THEN 0
  ELSE Min(DistanceScore(distance_to_nearest)
             + RatingScore(Get(location, "google_rating"))
             + TypeScore(Lower(GetD(location, "business_type", S("")).v))
             + PhoneScore(Get(location, "phone")),
           100)

(***************************************************************************)
(* analyze                                                                 *)
(***************************************************************************)
\* The largest r in lo..hi-1 with r*r <= x.
RECURSIVE IsqrtSearch(_, _, _)
IsqrtSearch(x, lo, hi) ==
  IF hi - lo <= 1 THEN lo
  ELSE LET mid == (lo + hi) \div 2
       IN  IF mid * mid <= x THEN IsqrtSearch(x, mid, hi)
           ELSE IsqrtSearch(x, lo, mid)

\* round(d, 2) of a distance in kilometres, in hundredths of a kilometre:
\* the multiple of 10 m nearest to d.  (d lies in [10n-5, 10n+5) exactly
\* when its integer part does.  The locations of the model are chosen so
\* that no distance ends on a half, where the result of round() depends on
\* the binary representation of the float.)
Round2(dsq) == (IsqrtSearch(dsq, 0, 46341) + 5) \div 10

\* lines 177-192: the record of one location
Opportunity(location, has_atm, existing_operator, distance_to_nearest, nearest_operator, score) ==
  [business_name |-> GetD(location, "business_name", S("")),
   address |-> GetD(location, "address", S("")),
   phone |-> GetD(location, "phone", S("")),
   business_type |-> GetD(location, "business_type", S("")),
   latitude |-> Get(location, "latitude"),
   longitude |-> Get(location, "longitude"),
   has_bitcoin_atm |-> has_atm,
   existing_atm_operator |-> Or(existing_operator, S("")),
   distance_to_nearest_atm |->
     IF distance_to_nearest # Inf THEN N(Round2(distance_to_nearest)) ELSE None,
   nearest_atm_operator |-> Or(nearest_operator, S("")),
   google_rating |-> Get(location, "google_rating"),
   opportunity_score |-> score,
   status |-> "not_contacted",
   notes |-> ""]

\* Mutant: the nearest operator of a location that has an ATM is taken from
\* the matched ATM.
ReturnedCrossValidated(location, has, near) ==
  [raised |-> has.raised \/ ScoreRaises(location, has.matched),
   has_atm |-> has.matched,
   existing_operator |-> has.operator,
   distance_to_nearest |-> near.min_distance,
   nearest_operator |-> IF has.matched THEN has.operator ELSE near.nearest_operator,
   score |-> IF has.raised \/ ScoreRaises(location, has.matched) THEN 0
             ELSE calculate_opportunity_score(location, has.matched,
                                              near.min_distance)]

\* lines 167-175: what the calls of one turn return, has being the result
\* of check_has_bitcoin_atm and near that of find_nearest_atm.
Returned(location, has, near) ==
  [raised |-> has.raised \/ ScoreRaises(location, has.matched),
   has_atm |-> has.matched,
   existing_operator |-> has.operator,
   distance_to_nearest |-> near.min_distance,
   nearest_operator |-> near.nearest_operator,
   score |-> IF has.raised \/ ScoreRaises(location, has.matched) THEN 0
             ELSE calculate_opportunity_score(location, has.matched,
                                              near.min_distance)]

\* Mutant: the nearest ATM is searched for the first location taken up only;
\* the locations after it are given no nearest ATM.
EvaluateFirstOnly(atms, location) ==
  Returned(location,
           check_has_bitcoin_atm(atms, location),
           IF opportunities = << >>
           THEN find_nearest_atm(atms, Get(location, "latitude"),
                                 Get(location, "longitude"))
           ELSE [min_distance |-> Inf, nearest_operator |-> None])

\* lines 163-175 for one location
Evaluate(atms, location) ==
  Returned(location,
           check_has_bitcoin_atm(atms, location),
           find_nearest_atm(atms, Get(location, "latitude"),
                            Get(location, "longitude")))

\* Mutant: an unstable descending sort, which puts position k in front of
\* the earlier positions of the same score.
InsertUnstable(list, before, k) ==
  LET keep == Cardinality({q \in 1..Len(before) :
                             list[before[q]].opportunity_score
                               > list[k].opportunity_score})
  IN  SubSeq(before, 1, keep) \o <<k>> \o SubSeq(before, keep + 1, Len(before))

\* Position k goes behind every earlier position whose score is at least as
\* high: before holds the earlier positions, already in order.
Insert(list, before, k) ==
  LET keep == Cardinality({q \in 1..Len(before) :
                             list[before[q]].opportunity_score
                               >= list[k].opportunity_score})
  IN  SubSeq(before, 1, keep) \o <<k>> \o SubSeq(before, keep + 1, Len(before))

\* list.sort(key=..., reverse=True) is stable: the positions of the first k
\* records of the list in the order in which the sort leaves them.
RECURSIVE SortedPositions(_, _)
SortedPositions(list, k) ==
  IF k = 0 THEN << >> ELSE Insert(list, SortedPositions(list, k - 1), k)

Permute(list, positions) == [k \in 1..Len(positions) |-> list[positions[k]]]

\* Mutant: a score of exactly 70 is not counted as high.
HighScoreCountAbove(list) ==
  Cardinality({k \in 1..Len(list) : list[k].opportunity_score > 70})

\* lines 203-205: the three sums over the sorted list
HasAtmCount(list) == Cardinality({k \in 1..Len(list) : list[k].has_bitcoin_atm})

HighScoreCount(list) ==
  Cardinality({k \in 1..Len(list) : list[k].opportunity_score >= 70})

\* lines 202-213: the counts of the printed summary
Summary(list) ==
  [total |-> Len(list),
   has_atm_count |-> HasAtmCount(list),
   no_atm_count |-> Len(list) - HasAtmCount(list),
   high_score_count |-> HighScoreCount(list)]

(***************************************************************************)
(* export_csv                                                              *)
(***************************************************************************)
\* config.OUTPUT_CSV before anything is written to it.
NoFile == [t |-> "nofile"]

\* lines 229-234: the columns, in their order
columns ==
  <<"business_name", "address", "phone", "business_type", "latitude",
    "longitude", "has_bitcoin_atm", "existing_atm_operator",
    "distance_to_nearest_atm", "nearest_atm_operator", "google_rating",
    "opportunity_score", "status", "notes">>

\* DataFrame.to_csv writes None and NaN as the empty cell, a boolean as True
\* or False, a string and a number as they are.
Cell(record, column) ==
  IF column = "has_bitcoin_atm"
  THEN S(IF record[column] THEN "True" ELSE "False")
  ELSE IF column = "opportunity_score" THEN N(record[column])
  ELSE IF column \in {"status", "notes"} THEN S(record[column])
  ELSE IF IsNone(record[column]) THEN S("")
  ELSE record[column]

\* lines 236-238: only the columns the frame has are kept, and the frame of
\* an empty list has none.
KeptColumns(list) ==
  IF list = << >> THEN << >> ELSE columns

\* lines 226-240: the file written, header and rows
to_csv(list) ==
  [t |-> "file",
   header |-> KeptColumns(list),
   rows |-> [k \in 1..Len(list) |->
               [n \in 1..Len(KeptColumns(list)) |->
                  Cell(list[k], KeptColumns(list)[n])]]]

(***************************************************************************)
(* The collections the analyzer is constructed with                        *)
(***************************************************************************)
MaxLocs == 2

MaxAtms == 2

RECURSIVE SeqsUpTo(_, _)
SeqsUpTo(pool, n) ==
  IF n = 0 THEN {<< >>}
  ELSE LET shorter == SeqsUpTo(pool, n - 1)
       IN  shorter \cup {Append(q, x) : q \in shorter, x \in pool}

\* __init__
Init ==
  /\ locations \in SeqsUpTo(LocPool, MaxLocs)
  /\ atm_locations \in SeqsUpTo(AtmPool, MaxAtms)
  /\ opportunities = << >>
  /\ origin = << >>
  /\ pc = "Idle"
  /\ i = 0
  /\ call = None
  /\ result = None
  /\ summary = None
  /\ stored = NoFile
  /\ requests = << >>

\* line 160
Start ==
  /\ pc = "Idle"
  /\ opportunities' = << >>
  /\ origin' = << >>
  /\ i' = 0
  /\ pc' = "Running"
  /\ UNCHANGED <<locations, atm_locations, call, result, summary, stored, requests>>

\* Mutant: a location that has an ATM gets no record.
AppendUnlessAtm(location, r) ==
  /\ ~r.raised
  /\ opportunities' =
       IF r.has_atm THEN opportunities
       ELSE Append(opportunities,
                   Opportunity(location, r.has_atm, r.existing_operator,
                               r.distance_to_nearest, r.nearest_operator, r.score))
  /\ origin' = IF r.has_atm THEN origin ELSE Append(origin, i + 1)

\* Mutant: the new record is put in front of the list.
PrependRecord(location, r) ==
  /\ ~r.raised
  /\ opportunities' =
       <<Opportunity(location, r.has_atm, r.existing_operator,
                     r.distance_to_nearest, r.nearest_operator, r.score)>>
         \o opportunities
  /\ origin' = <<i + 1>> \o origin

\* lines 177-194: the record is built and appended.  origin records the
\* input position behind each record; the code keeps no such list.
AppendRecord(location, r) ==
  /\ ~r.raised
  /\ opportunities' =
       Append(opportunities,
              Opportunity(location, r.has_atm, r.existing_operator,
                          r.distance_to_nearest, r.nearest_operator, r.score))
  /\ origin' = Append(origin, i + 1)

\* Mutant: the turn writes the default of a missing business_type into the
\* location itself.
ProcessFillingDefaults ==
  /\ pc = "Running"
  /\ i < Len(locations)
  /\ AppendRecord(locations[i + 1], Evaluate(atm_locations, locations[i + 1]))
  /\ i' = i + 1
  /\ locations' =
       [locations EXCEPT ![i + 1] =
          [k \in DOMAIN @ \cup {"business_type"} |->
             IF k \in DOMAIN @ THEN @[k] ELSE S("")]]
  /\ UNCHANGED <<atm_locations, pc, call, result, summary, stored, requests>>

\* lines 162-197, one turn of the loop that runs to its end.
Process ==
  /\ pc = "Running"
  /\ i < Len(locations)
  /\ AppendRecord(locations[i + 1], Evaluate(atm_locations, locations[i + 1]))
  /\ i' = i + 1
  /\ UNCHANGED <<locations, atm_locations, pc, call, result, summary, stored, requests>>

\* Mutant: a location for which a call raises is skipped and the loop goes on.
SkipAndContinue ==
  /\ pc = "Running"
  /\ i < Len(locations)
  /\ Evaluate(atm_locations, locations[i + 1]).raised
  /\ i' = i + 1
  /\ UNCHANGED <<locations, atm_locations, opportunities, origin, pc, call, result,
                 summary, stored, requests>>

\* lines 162-175, one turn of the loop in which a call raises: the
\* exception leaves analyze().
Abort ==
  /\ pc = "Running"
  /\ i < Len(locations)
  /\ Evaluate(atm_locations, locations[i + 1]).raised
  /\ pc' = "Failed"
  /\ UNCHANGED <<locations, atm_locations, opportunities, origin, i, call, result,
               summary, stored, requests>>

\* lines 199-215: the sort and the return
Finish ==
  /\ pc = "Running"
  /\ i = Len(locations)
  /\ opportunities' =
       Permute(opportunities, SortedPositions(opportunities, Len(opportunities)))
  /\ origin' = Permute(origin, SortedPositions(opportunities, Len(opportunities)))
  /\ pc' = "Complete"
  /\ summary' = Summary(opportunities)
  /\ UNCHANGED <<locations, atm_locations, i, call, result, stored, requests>>

\* lines 221-243: export_csv, called on the result of the run
Export ==
  /\ pc = "Complete"
  /\ stored = NoFile
  /\ stored' = to_csv(opportunities)
  /\ UNCHANGED <<locations, atm_locations, opportunities, origin, pc, i, call,
                 result, summary, requests>>

Next == Start \/ Process \/ Abort \/ Finish \/ Export

Spec == Init /\ [][Next]_vars

(***************************************************************************)
(* The loop of analyze() with its turns taken in any order                 *)
(***************************************************************************)
\* call holds the order in which the locations are taken up.
ParInit ==
  /\ locations \in SeqsUpTo(LocPool, MaxLocs)
  /\ atm_locations \in SeqsUpTo(AtmPool, MaxAtms)
  /\ opportunities = << >>
  /\ origin = << >>
  /\ pc = "Idle"
  /\ i = 0
  /\ call = << >>
  /\ result = None
  /\ summary = None
  /\ stored = NoFile
  /\ requests = << >>

\* The positions of the locations not taken up yet.
Unprocessed == (1..Len(locations)) \ {call[k] : k \in 1..Len(call)}

\* lines 177-194 for the location at position n
ParAppend(n, location, r) ==
  /\ ~r.raised
  /\ opportunities' =
       Append(opportunities,
              Opportunity(location, r.has_atm, r.existing_operator,
                          r.distance_to_nearest, r.nearest_operator, r.score))
  /\ origin' = Append(origin, n)
  /\ call' = Append(call, n)

\* lines 163-194 for any location not taken up yet
ParProcess ==
  /\ pc = "Running"
  /\ \E n \in Unprocessed :
       ParAppend(n, locations[n], Evaluate(atm_locations, locations[n]))
  /\ i' = i + 1
  /\ UNCHANGED <<locations, atm_locations, pc, result, summary, stored, requests>>

\* lines 163-175 for any location not taken up yet, a call raising
ParAbort ==
  /\ pc = "Running"
  /\ \E n \in Unprocessed : Evaluate(atm_locations, locations[n]).raised
  /\ pc' = "Failed"
  /\ UNCHANGED <<locations, atm_locations, opportunities, origin, i, call, result,
                 summary, stored, requests>>

\* The records in the order of their locations' positions.
Gathered ==
  [n \in 1..Len(opportunities) |->
     opportunities[CHOOSE k \in 1..Len(origin) : origin[k] = n]]

\* lines 199-215 on the records gathered in input order
ParFinish ==
  /\ pc = "Running"
  /\ Unprocessed = {}
  /\ opportunities' = Permute(Gathered, SortedPositions(Gathered, Len(Gathered)))
  /\ origin' = SortedPositions(Gathered, Len(Gathered))
  /\ pc' = "Complete"
  /\ summary' = Summary(Gathered)
  /\ UNCHANGED <<locations, atm_locations, i, call, result, stored, requests>>

ParNext == Start \/ ParProcess \/ ParAbort \/ ParFinish

ParSpec == ParInit /\ [][ParNext]_vars

(***************************************************************************)
(* calculate_distance called on its own                                    *)
(***************************************************************************)
\* The coordinates the method is called with: null, numbers, zero among
\* them, and a value geodesic() cannot read.
Coordinates == {None, N(0), N(1000), N(1030), N(2040), S("n/a")}

DistanceInit ==
  /\ locations = << >>
  /\ atm_locations = << >>
  /\ opportunities = << >>
  /\ origin = << >>
  /\ pc = "Idle"
  /\ i = 0
  /\ call \in [lat1 : Coordinates, lon1 : Coordinates,
                lat2 : Coordinates, lon2 : Coordinates]
  /\ result = None
  /\ summary = None
  /\ stored = NoFile
  /\ requests = << >>

\* lines 17-24: the call returns
DistanceCall ==
  /\ result = None
  /\ result' = N(calculate_distance(call.lat1, call.lon1, call.lat2, call.lon2))
  /\ UNCHANGED <<locations, atm_locations, opportunities, origin, pc, i, call,
                 summary, stored, requests>>

DistanceNext == DistanceCall

DistanceSpec == DistanceInit /\ [][DistanceNext]_vars

(***************************************************************************)
(* calculate_opportunity_score called on its own                           *)
(***************************************************************************)
\* The phones, types and ratings a location is given, and the distances
\* (squares of metres) the method is called with: every rung of the three
\* ladders, the values on and next to each threshold, and the values that
\* make the method raise.
Phones == {S("305-555-1234"), S(""), None, Missing}

Types ==
  {S("Gas Station"), S("CONVENIENCE STORE"), S("Smoke Shop"), S("Liquor Store"),
   S("La Bodega"), S("Grocery/Bodega"), S("Grocery"), S("Pharmacy"), S(""),
   Missing, None}

Ratings ==
  {N(50), N(45), N(44), N(42), N(40), N(39), N(35), N(34), N(30), N(29), N(10),
   N(0), None, Missing, S("4.5")}

Distances ==
  {Inf, Sq(5000), Sq(3000), Sq(3000) - 1, Sq(1000), Sq(1000) - 1, Sq(500),
   Sq(500) - 1, Sq(200), Sq(200) - 1, 0}

ScoredLocation(phone, type, rating) ==
  Location(<<S("Corner Market"), S("1 First St"), phone, type, None, None, rating>>)

\* The arguments of one call of calculate_opportunity_score.
ScoreInit ==
  /\ locations = << >>
  /\ atm_locations = << >>
  /\ opportunities = << >>
  /\ origin = << >>
  /\ pc = "Idle"
  /\ i = 0
  /\ call \in {[location |-> ScoredLocation(phone, type, rating),
                has_atm |-> has_atm, distance_to_nearest |-> distance] :
                 phone \in Phones, type \in Types, rating \in Ratings,
                 has_atm \in BOOLEAN, distance \in Distances}
  /\ result = None
  /\ summary = None
  /\ stored = NoFile
  /\ requests = << >>

\* lines 84-152: the call returns
ScoreCall ==
  /\ result = None
  /\ ~ScoreRaises(call.location, call.has_atm)
  /\ result' = N(calculate_opportunity_score(call.location, call.has_atm,
                                             call.distance_to_nearest))
  /\ UNCHANGED <<locations, atm_locations, opportunities, origin, pc, i, call,
                 summary, stored, requests>>

\* lines 116-141: the call raises
ScoreFail ==
  /\ result = None
  /\ ScoreRaises(call.location, call.has_atm)
  /\ result' = [t |-> "raised"]
  /\ UNCHANGED <<locations, atm_locations, opportunities, origin, pc, i, call,
                 summary, stored, requests>>

ScoreNext == ScoreCall \/ ScoreFail

ScoreSpec == ScoreInit /\ [][ScoreNext]_vars

(***************************************************************************)
(* The dashboard: update_status on the exported file                       *)
(***************************************************************************)
\* The rows of the file the dashboard is started on, the statuses and the
\* indices a request carries: one index below the rows, each row, and one
\* behind them.
MaxRows == 2

Statuses == {"contacted", "interested"}

Indices == -1..MaxRows

Handlers == {1, 2}

\* The locations of the pool that analyze() completes on without ATMs.
CleanLocations == {location \in LocPool : ~Evaluate(<< >>, location).raised}

\* analyze() of a list of such locations, without ATMs: the sorted records.
Analyzed(list) ==
  LET records == [n \in 1..Len(list) |->
                    Opportunity(list[n], FALSE, None, Inf, None,
                                Evaluate(<< >>, list[n]).score)]
  IN  Permute(records, SortedPositions(records, Len(records)))

\* main.py exports the result of a run with locations; without a run there
\* is no file.
ExportedFiles ==
  {NoFile} \cup
    {to_csv(Analyzed(list)) : list \in SeqsUpTo(CleanLocations, MaxRows) \ {<< >>}}

\* pandas.read_csv: the empty cell is read as NaN.
ReadCell(cell) == IF cell = S("") THEN None ELSE cell

\* DataFrame.to_csv: NaN and None are written as the empty cell.
WriteCell(value) == IF IsNone(value) THEN S("") ELSE value

\* dashboard.py lines 20-24: the frame read from the file, the empty frame
\* if there is no file.
load_data(file) ==
  IF file = NoFile
  THEN [header |-> << >>, rows |-> << >>]
  ELSE [header |-> file.header,
        rows |-> [k \in 1..Len(file.rows) |->
                    [n \in 1..Len(file.header) |-> ReadCell(file.rows[k][n])]]]

\* dashboard.py lines 126-128: the file written from the frame
save_data(df) ==
  [t |-> "file",
   header |-> df.header,
   rows |-> [k \in 1..Len(df.rows) |->
               [n \in 1..Len(df.header) |-> WriteCell(df.rows[k][n])]]]

\* df.columns.get_loc
get_loc(df, column) == CHOOSE n \in 1..Len(df.header) : df.header[n] = column

\* dashboard.py line 724: the status cell of row index (counted from 0) of
\* the handler's own frame is set.
SetStatus(df, index, status) ==
  [df EXCEPT !.rows[index + 1][get_loc(df, "status")] = S(status)]

\* dashboard.py line 723
ValidIndex(index, df) == 0 <= index /\ index < Len(df.rows)

\* Two requests are received; the server handles each in a thread of its own.
DashInit ==
  /\ locations = << >>
  /\ atm_locations = << >>
  /\ opportunities = << >>
  /\ origin = << >>
  /\ pc = "Idle"
  /\ i = 0
  /\ call = None
  /\ result = None
  /\ summary = None
  /\ stored \in ExportedFiles
  /\ requests \in [Handlers -> [index : Indices, status : Statuses,
                                pc : {"received"}, df : {None},
                                success : {None}]]

\* dashboard.py line 721
Load ==
  \E h \in Handlers :
    /\ requests[h].pc = "received"
    /\ requests' = [requests EXCEPT ![h].df = load_data(stored),
                                    ![h].pc = "loaded"]
    /\ UNCHANGED <<locations, atm_locations, opportunities, origin, pc, i, call,
                   result, summary, stored>>

\* dashboard.py lines 723-726: the status is set in the frame read before,
\* the whole frame is written, and the request succeeds.
Save ==
  \E h \in Handlers :
    /\ requests[h].pc = "loaded"
    /\ ValidIndex(requests[h].index, requests[h].df)
    /\ stored' = save_data(SetStatus(requests[h].df, requests[h].index,
                                     requests[h].status))
    /\ requests' = [requests EXCEPT ![h].success = TRUE, ![h].pc = "responded"]
    /\ UNCHANGED <<locations, atm_locations, opportunities, origin, pc, i, call,
                   result, summary>>

\* dashboard.py lines 723 and 728: the index is not a row of the frame
Reject ==
  \E h \in Handlers :
    /\ requests[h].pc = "loaded"
    /\ ~ValidIndex(requests[h].index, requests[h].df)
    /\ requests' = [requests EXCEPT ![h].success = FALSE, ![h].pc = "responded"]
    /\ UNCHANGED <<locations, atm_locations, opportunities, origin, pc, i, call,
                   result, summary, stored>>

DashNext == Load \/ Save \/ Reject

DashSpec == DashInit /\ [][DashNext]_vars

(***************************************************************************)
(* Properties                                                              *)
(***************************************************************************)
Records == 1..Len(opportunities)

\* The location behind the record at position k of the list.
LocationOf(k) == locations[origin[k]]

Score(k) == opportunities[k].opportunity_score

\* C1: every record analyze() builds and returns carries an integer score
\* between 0 and 100.
C1_ScoreBound ==
  \A k \in Records : Score(k) \in 0..100

\* A completed pass that returned both a record of score 0 and one of a
\* score above 80.
C1_Witness ==
  /\ pc = "Complete"
  /\ \E k \in Records : Score(k) = 0
  /\ \E k \in Records : Score(k) > 80

\* C2: a record with has_bitcoin_atm true has score 0, whatever its
\* distance, rating, type and phone.
C2_CompetitorZero ==
  \A k \in Records : opportunities[k].has_bitcoin_atm => Score(k) = 0

\* A returned record with an ATM, a finite nearest distance, a rating, a
\* scoring business type and a phone.
C2_Witness ==
  /\ pc = "Complete"
  /\ \E k \in Records :
       /\ opportunities[k].has_bitcoin_atm
       /\ IsNum(opportunities[k].distance_to_nearest_atm)
       /\ Truthy(opportunities[k].google_rating)
       /\ Truthy(opportunities[k].phone)
       /\ opportunities[k].business_type = S("Gas Station")

\* C3: when analyze() has completed, the list holds exactly one record for
\* each input location: as many records as locations, every input position
\* behind exactly one record, and each record a copy of its location.
C3_OutputComplete ==
  pc = "Complete" =>
    /\ Len(opportunities) = Len(locations)
    /\ \A p \in 1..Len(locations) :
         Cardinality({k \in Records : origin[k] = p}) = 1
    /\ \A k \in Records :
         /\ opportunities[k].business_name = GetD(LocationOf(k), "business_name", S(""))
         /\ opportunities[k].address = GetD(LocationOf(k), "address", S(""))
         /\ opportunities[k].latitude = Get(LocationOf(k), "latitude")
         /\ opportunities[k].longitude = Get(LocationOf(k), "longitude")

\* A completed pass over two locations of which one has an ATM.
C3_Witness ==
  /\ pc = "Complete"
  /\ Len(locations) = 2
  /\ Len(opportunities) = 2
  /\ \E k \in Records : opportunities[k].has_bitcoin_atm

\* C4: the returned list is in descending order of score, and records of
\* equal score are in the order of their locations in the input.
C4_SortedStable ==
  pc = "Complete" =>
    \A k, l \in Records :
      k < l => \/ Score(k) > Score(l)
               \/ Score(k) = Score(l) /\ origin[k] < origin[l]

\* A completed pass that returned two different records of the same score.
C4_Witness ==
  /\ pc = "Complete"
  /\ \E k, l \in Records :
       /\ k < l
       /\ Score(k) = Score(l)
       /\ opportunities[k] # opportunities[l]

Atms == 1..Len(atm_locations)

HasAtm(k) == opportunities[k].has_bitcoin_atm

NearestDistance(k) == opportunities[k].distance_to_nearest_atm

\* Both coordinates of the record are there and are numbers.
HasCoordinates(d) == IsNum(Get(d, "latitude")) /\ IsNum(Get(d, "longitude"))

\* Both coordinates of the ATM pass the test of line 35: numbers other than 0.
UsableCoordinates(atm) ==
  /\ HasCoordinates(atm)
  /\ Get(atm, "latitude").v # 0 /\ Get(atm, "longitude").v # 0

\* The square of the distance between a location and an ATM that both have
\* coordinates.
Between(location, atm) ==
  Sq(Get(location, "latitude").v - Get(atm, "latitude").v)
    + Sq(Get(location, "longitude").v - Get(atm, "longitude").v)

\* The least of a non-empty set of numbers.
Least(ds) == CHOOSE d \in ds : \A e \in ds : d <= e

\* C5: the nearest distance of a record is null only when no ATM has both
\* coordinates, and whenever some ATM has both it is the least distance from
\* the location to an ATM with coordinates, matched by the resolver or not.
C5_NearestDistance ==
  pc = "Complete" =>
    \A k \in Records :
      /\ IsNone(NearestDistance(k)) =>
           ~\E j \in Atms : HasCoordinates(atm_locations[j])
      /\ (HasCoordinates(LocationOf(k))
            /\ \E j \in Atms : HasCoordinates(atm_locations[j])) =>
           NearestDistance(k) =
             N(Round2(Least({Between(LocationOf(k), atm_locations[j]) :
                               j \in {m \in Atms : HasCoordinates(atm_locations[m])}})))

NearestExpected(location, usable) ==
  IF HasCoordinates(location) /\ usable # {}
  THEN N(Round2(Least({Between(location, atm_locations[j]) : j \in usable})))
  ELSE None

\* What lines 26-41 and 186 do compute: the nearest distance of a returned
\* record is null exactly when the location lacks a coordinate or no ATM has
\* two usable (present, non-zero, numeric) coordinates; otherwise it is the
\* least distance from the location to an ATM with usable coordinates,
\* rounded to 2 decimals, whether or not the resolver matched that ATM.
NearestDistanceComputed ==
  pc = "Complete" =>
    \A k \in Records :
      NearestDistance(k) =
        NearestExpected(LocationOf(k),
                    {j \in Atms : UsableCoordinates(atm_locations[j])})

\* The ATM's name and address are strings, so that reading them does not raise.
TextOk(atm) ==
  /\ IsStr(GetD(atm, "location_name", S("")))
  /\ IsStr(GetD(atm, "address", S("")))

LowName(d, key) == Lower(GetD(d, key, S("")).v)

ByContainment(location, atm) ==
  NameContainment(LowName(location, "business_name"), LowName(atm, "location_name"))

ByWords(location, atm) ==
  CommonWords(LowName(location, "business_name"), LowName(atm, "location_name"))

ByAddress(location, atm) ==
  AddressSimilarity(LowName(location, "address"), LowName(atm, "address"))

ByProximity(location, atm) ==
  Proximity(Get(location, "latitude"), Get(location, "longitude"),
            Get(atm, "latitude"), Get(atm, "longitude"))

\* At least one of the four rules holds of the pair.
SomeRule(location, atm) ==
  /\ TextOk(atm)
  /\ \/ ByContainment(location, atm) \/ ByWords(location, atm)
     \/ ByAddress(location, atm) \/ ByProximity(location, atm)

C6_Expected(record, matching) ==
  IF matching = {}
  THEN ~record.has_bitcoin_atm /\ record.existing_atm_operator = S("")
  ELSE /\ record.has_bitcoin_atm
       /\ record.existing_atm_operator =
            Or(GetD(atm_locations[Least(matching)], "operator", S("Unknown")), S(""))

\* C6: the resolver answers for the first ATM, in collection order, of which
\* at least one of the four rules holds, whatever rule holds of a later ATM,
\* and answers (False, None) exactly when no rule holds of any ATM.
C6_FirstAtmWins ==
  pc = "Complete" =>
    \A k \in Records :
      C6_Expected(opportunities[k],
                  {j \in Atms : SomeRule(LocationOf(k), atm_locations[j])})

\* A returned record whose first ATM matches by proximity alone and whose
\* second ATM, of another operator, matches by name.
C6_Witness ==
  /\ pc = "Complete"
  /\ Len(atm_locations) = 2
  /\ \E k \in Records :
       /\ HasAtm(k)
       /\ TextOk(atm_locations[1]) /\ TextOk(atm_locations[2])
       /\ ByProximity(LocationOf(k), atm_locations[1])
       /\ ~ByContainment(LocationOf(k), atm_locations[1])
       /\ ~ByWords(LocationOf(k), atm_locations[1])
       /\ ~ByAddress(LocationOf(k), atm_locations[1])
       /\ ByContainment(LocationOf(k), atm_locations[2])
       /\ Get(atm_locations[1], "operator") # Get(atm_locations[2], "operator")
       /\ opportunities[k].existing_atm_operator = Get(atm_locations[1], "operator")

\* a occurs in b, character by character.
Occurs(a, b) ==
  \E p \in 0..(Len(b) - Len(a)) : \A m \in 1..Len(a) : Char(b, p + m) = Char(a, m)

\* Both names are non-empty and one occurs in the other, case aside.
NamesContain(location, atm) ==
  /\ LowName(location, "business_name") # ""
  /\ LowName(atm, "location_name") # ""
  /\ \/ Occurs(LowName(location, "business_name"), LowName(atm, "location_name"))
     \/ Occurs(LowName(atm, "location_name"), LowName(location, "business_name"))

\* C7: a location and an ATM whose names are non-empty and of which one
\* contains the other, case aside and in either direction, make the record
\* one with an ATM; and a record has an ATM only through some ATM of which
\* the address rule or the proximity rule holds, or a name rule with both
\* names non-empty.
C7_NameContainment ==
  pc = "Complete" =>
    \A k \in Records :
      /\ \A j \in Atms :
           (TextOk(atm_locations[j]) /\ NamesContain(LocationOf(k), atm_locations[j]))
             => HasAtm(k)
      /\ HasAtm(k) =>
           \E j \in Atms :
             /\ TextOk(atm_locations[j])
             /\ \/ ByAddress(LocationOf(k), atm_locations[j])
                \/ ByProximity(LocationOf(k), atm_locations[j])
                \/ /\ LowName(LocationOf(k), "business_name") # ""
                   /\ LowName(atm_locations[j], "location_name") # ""
                   /\ \/ ByContainment(LocationOf(k), atm_locations[j])
                      \/ ByWords(LocationOf(k), atm_locations[j])

\* A returned record with an ATM whose location's name properly contains,
\* in another case, the name of the only ATM, no other rule holding.
C7_Witness ==
  /\ pc = "Complete"
  /\ Len(atm_locations) = 1
  /\ \E k \in Records :
       /\ HasAtm(k)
       /\ TextOk(atm_locations[1])
       /\ Len(LowName(LocationOf(k), "business_name"))
            > Len(LowName(atm_locations[1], "location_name"))
       /\ ~Contains(GetD(atm_locations[1], "location_name", S("")).v,
                    GetD(LocationOf(k), "business_name", S("")).v)
       /\ NamesContain(LocationOf(k), atm_locations[1])
       /\ ~ByWords(LocationOf(k), atm_locations[1])
       /\ ~ByAddress(LocationOf(k), atm_locations[1])
       /\ ~ByProximity(LocationOf(k), atm_locations[1])

\* Two different words, neither of them generic, are in both names.
TwoShared(loc_words, atm_words) ==
  \E w1 \in loc_words \ Generic : \E w2 \in loc_words \ Generic :
    /\ w1 # w2
    /\ w1 \in atm_words /\ w2 \in atm_words

\* Both names are non-empty and have two significant words in common.
ShareTwoWords(location, atm) ==
  /\ LowName(location, "business_name") # ""
  /\ LowName(atm, "location_name") # ""
  /\ TwoShared(SplitSet(LowName(location, "business_name")),
               SplitSet(LowName(atm, "location_name")))

\* No ATM matches the location by containment, address or proximity.
OnlyWordsLeft(location) ==
  \A j \in Atms :
    /\ TextOk(atm_locations[j])
    /\ ~NamesContain(location, atm_locations[j])
    /\ ~ByAddress(location, atm_locations[j])
    /\ ~ByProximity(location, atm_locations[j])

\* C8: when no other rule holds of any ATM, the record has an ATM exactly
\* when, for some ATM, both names are non-empty and, split on whitespace in
\* lower case and with the generic words taken out, have at least 2 words in
\* common; one common significant word, or common generic words, do not count.
C8_SharedWords ==
  pc = "Complete" =>
    \A k \in Records :
      OnlyWordsLeft(LocationOf(k)) =>
        (HasAtm(k) <=> \E j \in Atms : ShareTwoWords(LocationOf(k), atm_locations[j]))

\* A returned record with an ATM whose name shares two significant words, in
\* another order, with the only ATM's name, no other rule holding.
C8_Witness ==
  /\ pc = "Complete"
  /\ Len(atm_locations) = 1
  /\ \E k \in Records :
       /\ HasAtm(k)
       /\ OnlyWordsLeft(LocationOf(k))
       /\ ShareTwoWords(LocationOf(k), atm_locations[1])
       /\ SplitSet(LowName(LocationOf(k), "business_name")) \cap Generic # {}

\* The part of the address before the first comma, trimmed, in lower case.
StreetPart(d) == Lower(Strip(FirstField(GetD(d, "address", S("")).v)))

\* The street parts of the two addresses are non-empty and equal.
SameStreet(location, atm) ==
  /\ IsStr(GetD(atm, "address", S("")))
  /\ StreetPart(location) # ""
  /\ StreetPart(location) = StreetPart(atm)

\* C9: a location whose address, up to its first comma, equals that of some
\* ATM, case and surrounding whitespace aside and both parts non-empty, gets
\* a record with an ATM and score 0, whatever the distance between the two
\* and whether or not either has coordinates or a name.
C9_SameStreet ==
  pc = "Complete" =>
    \A k \in Records :
      (\E j \in Atms : SameStreet(LocationOf(k), atm_locations[j]))
        => (HasAtm(k) /\ Score(k) = 0)

\* A returned record with score 0 of a location without coordinates whose
\* street part equals, in another case and without the blanks around it,
\* that of the only ATM, the names having nothing in common.
C9_Witness ==
  /\ pc = "Complete"
  /\ Len(atm_locations) = 1
  /\ \E k \in Records :
       /\ HasAtm(k) /\ Score(k) = 0
       /\ SameStreet(LocationOf(k), atm_locations[1])
       /\ GetD(LocationOf(k), "address", S("")) # GetD(atm_locations[1], "address", S(""))
       /\ ~HasCoordinates(LocationOf(k))
       /\ ~NamesContain(LocationOf(k), atm_locations[1])
       /\ ~ShareTwoWords(LocationOf(k), atm_locations[1])

\* No ATM matches the location by a name rule or by address.
NoTextRule(location) ==
  \A j \in Atms :
    /\ TextOk(atm_locations[j])
    /\ ~ByContainment(location, atm_locations[j])
    /\ ~ByWords(location, atm_locations[j])
    /\ ~ByAddress(location, atm_locations[j])

\* All four coordinates are numbers and the two points are less than 50 m
\* apart.
Within50m(location, atm) ==
  /\ HasCoordinates(location) /\ HasCoordinates(atm)
  /\ Between(location, atm) < Sq(50)

\* C10: when no text rule holds of any ATM, the record has an ATM exactly
\* when, for some ATM, the location and the ATM both have a latitude and a
\* longitude, of any numeric value, and are strictly less than 0.05 km apart.
C10_Proximity ==
  pc = "Complete" =>
    \A k \in Records :
      NoTextRule(LocationOf(k)) =>
        (HasAtm(k) <=> \E j \in Atms : Within50m(LocationOf(k), atm_locations[j]))

\* The operator the record of a location matched with this ATM is to name:
\* the ATM's operator, "Unknown" standing for one that is absent, null or
\* empty.
ReportedOperator(atm) ==
  IF IsStr(GetD(atm, "operator", None)) /\ GetD(atm, "operator", None).v # ""
  THEN Get(atm, "operator")
  ELSE S("Unknown")

C11_Expected(record, matching) ==
  IF matching = {}
  THEN ~record.has_bitcoin_atm /\ record.existing_atm_operator = S("")
  ELSE /\ record.has_bitcoin_atm
       /\ record.existing_atm_operator =
            ReportedOperator(atm_locations[Least(matching)])

\* C11: a record has an ATM exactly when the resolver matched some ATM; its
\* operator is then that of the matched ATM, "Unknown" when that ATM's
\* operator is not resolved, and it is the empty string when the record has
\* no ATM.
C11_CompetitorOperator ==
  pc = "Complete" =>
    \A k \in Records :
      C11_Expected(opportunities[k],
                   {j \in Atms : SomeRule(LocationOf(k), atm_locations[j])})

\* The first ATM of the set among those nearest to the location.
FirstNearest(location, among) ==
  Least({j \in among :
           \A m \in among : Between(location, atm_locations[j])
                              <= Between(location, atm_locations[m])})

C12_Expected(location, among, found) ==
  (HasCoordinates(location) /\ among # {}) =>
    /\ found.min_distance =
         Between(location, atm_locations[FirstNearest(location, among)])
    /\ found.nearest_operator =
         GetD(atm_locations[FirstNearest(location, among)], "operator", S("Unknown"))

\* C12: for a location with coordinates, find_nearest_atm returns the least
\* distance to an ATM of the whole set that has coordinates, with the
\* operator of the first ATM, in collection order, at that distance.
C12_NearestWithOperator ==
  pc = "Complete" =>
  \A n \in 1..Len(locations) :
    C12_Expected(locations[n],
                 {j \in Atms : HasCoordinates(atm_locations[j])},
                 find_nearest_atm(atm_locations, Get(locations[n], "latitude"),
                                  Get(locations[n], "longitude")))

\* The ATM set without its j-th ATM.
Without(atms, j) == SubSeq(atms, 1, j - 1) \o SubSeq(atms, j + 1, Len(atms))

Nearest(atms, location) ==
  find_nearest_atm(atms, Get(location, "latitude"), Get(location, "longitude"))

\* The sum of the buckets of a location whose nearest distance is infinite.
ScoreAtInfinity(location) ==
  Min(30 + RatingScore(Get(location, "google_rating"))
         + TypeScore(Lower(GetD(location, "business_type", S("")).v))
         + PhoneScore(Get(location, "phone")),
      100)

C13_NothingNear(record, location) ==
  /\ Nearest(atm_locations, location) = [min_distance |-> Inf, nearest_operator |-> None]
  /\ record.distance_to_nearest_atm = None
  /\ record.nearest_atm_operator = S("")
  /\ ~record.has_bitcoin_atm => record.opportunity_score = ScoreAtInfinity(location)

\* C13: an ATM that lacks a coordinate can be taken out of the set without
\* changing what find_nearest_atm returns; and when no ATM has usable
\* coordinates or the location lacks a coordinate, the method returns
\* (inf, None), the record's nearest distance is null, its nearest operator
\* is empty, and the distance bucket of a location without ATM is 30.
C13_NoCoordinates ==
  pc = "Complete" =>
    \A k \in Records :
      /\ \A j \in Atms :
           (IsNone(Get(atm_locations[j], "latitude"))
              \/ IsNone(Get(atm_locations[j], "longitude")))
             => Nearest(Without(atm_locations, j), LocationOf(k))
                  = Nearest(atm_locations, LocationOf(k))
      /\ (~HasCoordinates(LocationOf(k))
            \/ ~\E j \in Atms : UsableCoordinates(atm_locations[j]))
           => C13_NothingNear(opportunities[k], LocationOf(k))

\* A returned record without ATM, with 30 + 10 + 20 + 10 points, of a
\* location without coordinates, the ATM set holding an ATM with coordinates.
C13_Witness ==
  /\ pc = "Complete"
  /\ \E k \in Records :
       /\ ~HasAtm(k)
       /\ ~HasCoordinates(LocationOf(k))
       /\ NearestDistance(k) = None
       /\ Score(k) = 70
       /\ \E j \in Atms : UsableCoordinates(atm_locations[j])

\* The nearest operator lines 26-41 and 187 leave in the record of a
\* location, from its coordinates and the ATMs with usable coordinates alone.
NearestOperatorExpected(location, usable) ==
  IF HasCoordinates(location) /\ usable # {}
  THEN Or(GetD(atm_locations[FirstNearest(location, usable)], "operator",
               S("Unknown")), S(""))
  ELSE S("")

C14_FromCoordinates(record, location, usable) ==
  /\ record.distance_to_nearest_atm = NearestExpected(location, usable)
  /\ record.nearest_atm_operator = NearestOperatorExpected(location, usable)

\* C14: the nearest distance and the nearest operator of a record follow
\* from the location's coordinates and the ATM set alone, whether or not the
\* record has an ATM: two records of locations at the same coordinates carry
\* the same two values, and nothing ties the nearest operator of a record
\* that has an ATM to the operator of the matched ATM.
C14_NearestIndependent ==
  pc = "Complete" =>
    /\ \A k \in Records :
         C14_FromCoordinates(opportunities[k], LocationOf(k),
                             {j \in Atms : UsableCoordinates(atm_locations[j])})
    /\ \A k \in Records : \A l \in Records :
         (/\ Get(LocationOf(k), "latitude") = Get(LocationOf(l), "latitude")
          /\ Get(LocationOf(k), "longitude") = Get(LocationOf(l), "longitude"))
           => /\ NearestDistance(k) = NearestDistance(l)
              /\ opportunities[k].nearest_atm_operator
                   = opportunities[l].nearest_atm_operator

\* A record that has an ATM and a finite nearest distance, whose nearest
\* operator is not the operator of the matched ATM, beside a record of a
\* location without ATM and with a finite nearest distance.
C14_Witness ==
  /\ pc = "Complete"
  /\ \E k \in Records : \E l \in Records :
       /\ HasAtm(k)
       /\ IsNum(NearestDistance(k))
       /\ opportunities[k].existing_atm_operator = S("Bitcoin Depot")
       /\ opportunities[k].nearest_atm_operator = S("RockItCoin")
       /\ ~HasAtm(l)
       /\ IsNum(NearestDistance(l))

\* calculate_opportunity_score has returned for a location without ATM.
ScoredWithoutAtm == IsNum(result) /\ ~call.has_atm

TypeOf(location) == Lower(GetD(location, "business_type", S("")).v)

\* The points of the returned score left for one bucket when the points of
\* the three other buckets are taken off.
DistancePoints ==
  result.v - RatingScore(Get(call.location, "google_rating"))
           - TypeScore(TypeOf(call.location))
           - PhoneScore(Get(call.location, "phone"))

RatingPoints ==
  result.v - DistanceScore(call.distance_to_nearest)
           - TypeScore(TypeOf(call.location))
           - PhoneScore(Get(call.location, "phone"))

TypePoints ==
  result.v - DistanceScore(call.distance_to_nearest)
           - RatingScore(Get(call.location, "google_rating"))
           - PhoneScore(Get(call.location, "phone"))

\* The distance lies in [from, to), in metres.
DistanceIn(distance, from, to) ==
  distance # Inf /\ Sq(from) <= distance /\ distance < Sq(to)

C15_Ladder(distance, points) ==
  /\ distance = Inf => points = 30
  /\ (distance # Inf /\ distance >= Sq(3000)) => points = 40
  /\ DistanceIn(distance, 1000, 3000) => points = 35
  /\ DistanceIn(distance, 500, 1000) => points = 25
  /\ DistanceIn(distance, 200, 500) => points = 10
  /\ DistanceIn(distance, 0, 200) => points = 0

\* C15: for a location without ATM the distance bucket is 30 for an
\* infinite distance, 40 from 3 km on, 35 from 1 km on, 25 from 0.5 km on,
\* 10 from 0.2 km on and 0 below, each threshold belonging to the higher
\* bucket.
C15_DistanceBucket ==
  ScoredWithoutAtm => C15_Ladder(call.distance_to_nearest, DistancePoints)

\* A returned score whose distance, exactly 3 km, took 40 points.
C15_Witness ==
  /\ ScoredWithoutAtm
  /\ call.distance_to_nearest = Sq(3000)
  /\ DistancePoints = 40

\* The rating is a number from 1.0 to 5.0 and lies in [from, to), in tenths.
RatingIn(rating, from, to) ==
  IsNum(rating) /\ 10 <= rating.v /\ rating.v <= 50 /\ from <= rating.v /\ rating.v < to

C16_Ladder(rating, points) ==
  /\ IsNone(rating) => points = 10
  /\ RatingIn(rating, 45, 51) => points = 25
  /\ RatingIn(rating, 40, 45) => points = 20
  /\ RatingIn(rating, 35, 40) => points = 15
  /\ RatingIn(rating, 30, 35) => points = 10
  /\ RatingIn(rating, 10, 30) => points = 5

\* C16: for a location without ATM the rating bucket is 10 when the rating
\* is absent or null, and for a rating from 1.0 to 5.0 it is 25 from 4.5 on,
\* 20 from 4.0 on, 15 from 3.5 on, 10 from 3.0 on and 5 below.
C16_RatingBucket ==
  ScoredWithoutAtm => C16_Ladder(Get(call.location, "google_rating"), RatingPoints)

\* A returned score whose rating, exactly 4.0, took 20 points.
C16_Witness ==
  /\ ScoredWithoutAtm
  /\ Get(call.location, "google_rating") = N(40)
  /\ RatingPoints = 20

\* The table of the category bucket, in its order.
CategoryTable ==
  << <<"gas station", 25>>, <<"convenience store", 23>>, <<"smoke shop", 20>>,
     <<"liquor store", 18>>, <<"bodega", 18>>, <<"grocery", 15>> >>

\* The keys of the table that occur in the label.
KeysIn(label) == {n \in 1..Len(CategoryTable) : Occurs(CategoryTable[n][1], label)}

C17_FirstKey(keys, points) ==
  IF keys = {} THEN points = 12 ELSE points = CategoryTable[Least(keys)][2]

\* C17: for a location without ATM the category bucket is that of the first
\* key of the table, in its order, that occurs in the label in lower case,
\* so that 'Grocery/Bodega' takes the 18 of bodega, and 12 for a label
\* without any key or an empty one.
C17_CategoryBucket ==
  ScoredWithoutAtm => C17_FirstKey(KeysIn(TypeOf(call.location)), TypePoints)

\* A returned score whose label, 'Grocery/Bodega', took 18 points.
C17_Witness ==
  /\ ScoredWithoutAtm
  /\ Get(call.location, "business_type") = S("Grocery/Bodega")
  /\ Cardinality(KeysIn(TypeOf(call.location))) = 2
  /\ TypePoints = 18

\* 10 for a phone that is there and not empty.
ContactBucket(phone) == IF IsStr(phone) /\ phone.v # "" THEN 10 ELSE 0

C18_Sum(location, distance, total) ==
  /\ total = Min(DistanceScore(distance)
                   + RatingScore(Get(location, "google_rating"))
                   + TypeScore(TypeOf(location))
                   + ContactBucket(Get(location, "phone")),
                 100)
  /\ (/\ DistanceIn(distance, 1000, 3000)
      /\ Get(location, "google_rating") = N(42)
      /\ Get(location, "business_type") = S("Gas Station")
      /\ ContactBucket(Get(location, "phone")) = 10)
       => total = 90

\* C18: for a location without ATM the score is the least of 100 and the sum
\* of the distance, rating, category and contact buckets, the contact bucket
\* being 10 for a non-empty phone and 0 otherwise; a distance of 1 to 3 km,
\* a rating of 4.2, the category 'Gas Station' and a phone give 90.
C18_FinalScore ==
  ScoredWithoutAtm => C18_Sum(call.location, call.distance_to_nearest, result.v)

\* The returned score of the example: 35 + 20 + 25 + 10.
C18_Witness ==
  /\ ScoredWithoutAtm
  /\ DistanceIn(call.distance_to_nearest, 1000, 3000)
  /\ Get(call.location, "google_rating") = N(42)
  /\ Get(call.location, "business_type") = S("Gas Station")
  /\ Get(call.location, "phone") = S("305-555-1234")
  /\ result = N(90)

\* The score of the location of the call, without ATM, at another distance.
ScoreAt(distance) == calculate_opportunity_score(call.location, FALSE, distance)

Tagged(list, positions) == {<<positions[k], list[k]>> : k \in 1..Len(list)}

\* The run starts: the list of the last run is dropped.
C20_Starts ==
  /\ pc = "Idle" /\ pc' = "Running"
  /\ opportunities' = << >> /\ i' = 0

\* One location is processed: the next of the input, whose record goes
\* behind the records there are, which stay as they are.
C20_Processes ==
  /\ pc = "Running" /\ pc' = "Running"
  /\ i < Len(locations) /\ i' = i + 1
  /\ Len(opportunities') = Len(opportunities) + 1
  /\ SubSeq(opportunities', 1, Len(opportunities)) = opportunities
  /\ origin' = Append(origin, i + 1)
  /\ opportunities'[Len(opportunities')].business_name
       = GetD(locations[i + 1], "business_name", S(""))

\* The run completes: every location has been processed and the records are
\* reordered, none added, dropped or changed.
C20_Completes ==
  /\ pc = "Running" /\ pc' = "Complete"
  /\ i = Len(locations) /\ i' = i
  /\ Len(opportunities') = Len(opportunities)
  /\ Tagged(opportunities', origin') = Tagged(opportunities, origin)

\* A call raises and the exception ends the run where it is.
C20_Raises ==
  /\ pc = "Running" /\ pc' = "Failed"
  /\ UNCHANGED <<opportunities, origin, i>>

\* What a run reads and writes.
run == <<locations, atm_locations, opportunities, origin, pc, i>>

\* C20: a run goes from Idle to Running to Complete in one pass: every step
\* starts the run, processes the next location of the input behind the
\* records already made, which it leaves as they are, or completes the run
\* by reordering the records; no step leads back, and the only other way
\* out of Running is an exception.  Every record made has the status
\* "not_contacted" and empty notes, at every later step too.
C20_SinglePass ==
  [][/\ C20_Starts \/ C20_Processes \/ C20_Completes \/ C20_Raises
     /\ UNCHANGED <<locations, atm_locations>>
     /\ \A k \in 1..Len(opportunities') :
          /\ opportunities'[k].status = "not_contacted"
          /\ opportunities'[k].notes = ""]_run

\* A completed run over two locations whose records the sort has exchanged.
C20_Witness ==
  /\ pc = "Complete"
  /\ i = 2
  /\ origin = <<2, 1>>
  /\ \A k \in Records : opportunities[k].status = "not_contacted"
  /\ Score(1) > Score(2)

\* The number of records of the result that satisfy the test.
HowMany(Test(_)) == Cardinality({k \in Records : Test(k)})

IsHigh(k) == Score(k) >= 70

\* C21: on completion the summary counts the records of the result: total
\* is their number, with-ATM the number of those that have an ATM,
\* without-ATM the rest, and high-score the number of those with a score of
\* 70 or more; without locations the result is empty and the four counts
\* are 0.
C21_SummaryCounts ==
  pc = "Complete" =>
    /\ summary.total = Len(opportunities)
    /\ summary.has_atm_count = HowMany(HasAtm)
    /\ summary.no_atm_count = summary.total - summary.has_atm_count
    /\ summary.high_score_count = HowMany(IsHigh)
    /\ locations = << >> =>
         /\ opportunities = << >>
         /\ summary = [total |-> 0, has_atm_count |-> 0, no_atm_count |-> 0,
                       high_score_count |-> 0]

\* A completed run whose two records are one of exactly 70 points and one
\* that has an ATM, counted as 2, 1, 1 and 1.
C21_Witness ==
  /\ pc = "Complete"
  /\ Len(opportunities) = 2
  /\ Score(1) = 70 /\ ~HasAtm(1)
  /\ HasAtm(2)
  /\ summary = [total |-> 2, has_atm_count |-> 1, no_atm_count |-> 1,
                high_score_count |-> 1]

\* C22: whatever fields of the locations and the ATMs are present, missing
\* or null, no call of the run raises: the run never fails.
C22_GapsAbsorbed == pc # "Failed"

\* A call made for the next location raises.
NextRaises ==
  /\ pc = "Running"
  /\ i < Len(locations)
  /\ Evaluate(atm_locations, locations[i + 1]).raised

\* C23: when a call made for a location raises, the run fails there: it
\* makes no record for that location, passes on to no other location and
\* never completes, a failed run stays failed, and a run that completes has
\* a record for every location.
C23_FaultAborts ==
  [][/\ NextRaises => (pc' = "Failed" /\ UNCHANGED <<opportunities, origin, i>>)
     /\ pc # "Failed"
     /\ pc' = "Complete" => Len(opportunities') = Len(locations)]_run

\* A run that failed at its second location, the record of the first made.
C23_Witness ==
  /\ pc = "Failed"
  /\ Len(locations) = 2
  /\ i = 1
  /\ Len(opportunities) = 1

\* The four coordinates of the call.
Called == {call.lat1, call.lon1, call.lat2, call.lon2}

\* C24: calculate_distance always returns: the infinite distance when one
\* of the four coordinates is null or is no number, and otherwise the
\* distance of the two points, finite and not negative.
C24_DistanceTotal ==
  result # None =>
    /\ IsNum(result)
    /\ (\E c \in Called : ~IsNum(c)) => result.v = Inf
    /\ (\A c \in Called : IsNum(c)) =>
         /\ 0 <= result.v /\ result.v < Inf
         /\ result.v = Sq(call.lat1.v - call.lat2.v) + Sq(call.lon1.v - call.lon2.v)

\* A returned infinite distance for a call with one null coordinate, the
\* three others being numbers.
C24_Witness ==
  /\ result = N(Inf)
  /\ IsNone(call.lat1)
  /\ IsNum(call.lon1) /\ IsNum(call.lat2) /\ IsNum(call.lon2)

\* The record the sequential pass makes for a location.
RecordOf(location, r) ==
  Opportunity(location, r.has_atm, r.existing_operator, r.distance_to_nearest,
              r.nearest_operator, r.score)

\* The list of the sequential pass before its sort.
SequentialRecords ==
  [n \in 1..Len(locations) |->
     RecordOf(locations[n], Evaluate(atm_locations, locations[n]))]

SameAsSorted(list) ==
  /\ opportunities = Permute(list, SortedPositions(list, Len(list)))
  /\ origin = SortedPositions(list, Len(list))

C26_InputsUnchanged ==
  [][locations' = locations /\ atm_locations' = atm_locations]_vars

\* A completed run over two locations and two ATMs, one location without
\* the key business_type and one ATM without the key operator, a record
\* having an ATM.
C26_Witness ==
  /\ pc = "Complete"
  /\ Len(locations) = 2 /\ Len(atm_locations) = 2
  /\ \E n \in 1..2 : "business_type" \notin DOMAIN locations[n]
  /\ \E j \in 1..2 : "operator" \notin DOMAIN atm_locations[j]
  /\ \E k \in Records : HasAtm(k)

\* The columns of the export, in their order.
ExportColumns ==
  <<"business_name", "address", "phone", "business_type", "latitude",
    "longitude", "has_bitcoin_atm", "existing_atm_operator",
    "distance_to_nearest_atm", "nearest_atm_operator", "google_rating",
    "opportunity_score", "status", "notes">>

\* Row k of the file is record k of the result, and the cell of a null
\* nearest distance is empty.
RowOfRecord(row, record) ==
  /\ Len(row) = Len(ExportColumns)
  /\ row[1] = record.business_name
  /\ row[12] = N(record.opportunity_score)
  /\ IF IsNone(record.distance_to_nearest_atm)
     THEN row[9] = S("")
     ELSE row[9] = record.distance_to_nearest_atm /\ row[9].v < Inf

\* C27: the file exported from a result, an empty result too, has exactly
\* the fourteen columns in their order and one row for each record, in the
\* sorted order of the result, the cell of a null nearest distance empty.
C27_ExportColumns ==
  stored # NoFile =>
    /\ stored.header = ExportColumns
    /\ Len(stored.rows) = Len(opportunities)
    /\ \A k \in Records : RowOfRecord(stored.rows[k], opportunities[k])

\* The sum of the four buckets of a location, before min(score, 100).
BucketSum(location, distance) ==
  DistanceScore(distance) + RatingScore(Get(location, "google_rating"))
    + TypeScore(TypeOf(location)) + PhoneScore(Get(location, "phone"))

C28_Floor(record, sum) ==
  /\ ~record.has_bitcoin_atm =>
       /\ 17 <= sum /\ sum <= 100
       /\ record.opportunity_score = sum
  /\ record.opportunity_score = 0 <=> record.has_bitcoin_atm

\* C28: the score of a record without ATM is the sum of its buckets, which
\* is at least 17 and at most 100; so a record has score 0 exactly when it
\* has an ATM, and in the sorted result no record that has an ATM comes
\* before one that has none.
C28_ScoreFloor ==
  /\ \A k \in Records :
       C28_Floor(opportunities[k],
                 IF HasAtm(k) THEN 0
                 ELSE BucketSum(LocationOf(k),
                                Nearest(atm_locations, LocationOf(k)).min_distance))
  /\ pc = "Complete" =>
       \A k \in Records : \A l \in Records :
         (HasAtm(k) /\ ~HasAtm(l)) => l < k

\* A completed run whose sort has put a record without ATM of 17 points,
\* 0 + 5 + 12 + 0, before the record of the first location, which has an ATM.
C28_Witness ==
  /\ pc = "Complete"
  /\ origin = <<2, 1>>
  /\ ~HasAtm(1) /\ Score(1) = 17
  /\ HasAtm(2) /\ Score(2) = 0

\* C29: the resolver and the nearest finder agree on proximity: the least
\* distance found for a record without ATM is infinite or at least 0.05 km,
\* and a location whose least distance is below 0.05 km has a record with an
\* ATM and score 0.
C29_ProximityAgreement ==
  \A k \in Records :
    Nearest(atm_locations, LocationOf(k)).min_distance < Sq(50)
      => (HasAtm(k) /\ Score(k) = 0)

Responded(h) == requests[h].pc = "responded"

StatusStored(file, index) ==
  file.rows[index + 1][CHOOSE n \in 1..Len(file.header) : file.header[n] = "status"]

\* Both requests have succeeded on different rows and the file has the
\* status of each.
BothStored ==
  (/\ Responded(1) /\ Responded(2)
   /\ requests[1].success = TRUE /\ requests[2].success = TRUE
   /\ requests[1].index # requests[2].index)
    => \A h \in Handlers :
         StatusStored(stored, requests[h].index) = S(requests[h].status)

\* The handler that responds in the step.
Responds(h) == requests[h].pc = "loaded" /\ requests'[h].pc = "responded"

OutOfRange(h) ==
  requests[h].index < 0 \/ requests[h].index >= Len(load_data(stored).rows)

\* The file after the step differs from the file before it at most in the
\* status of row index.
OnlyStatusOf(index) ==
  \/ stored' = stored
  \/ /\ stored # NoFile
     /\ stored'.header = stored.header
     /\ Len(stored'.rows) = Len(stored.rows)
     /\ \A k \in 1..Len(stored.rows) : \A n \in 1..Len(stored.header) :
          (k # index + 1 \/ stored.header[n] # "status")
            => stored'.rows[k][n] = stored.rows[k][n]

\* C30: status updates are not lost: after two requests for different rows
\* have both succeeded the file has both statuses; a request whose index is
\* out of range fails and leaves the file as it is; and a request changes
\* nothing in the file but the status of its row.
C30_UpdatesKept ==
  [][/\ BothStored'
     /\ \A h \in Handlers :
          Responds(h) =>
            /\ OutOfRange(h) => (requests'[h].success = FALSE /\ stored' = stored)
            /\ OnlyStatusOf(requests[h].index)]_vars

====
